---- MODULE Spec2Model ----
(***************************************************************************)
(* Model of cmd/compile/internal/types2/assignments.go: the assignment and *)
(* initialization checks of the type checker (assignment, initConst,       *)
(* initVar, lhsVar, assignVar, initVars, assignVars, shortVarDecl).        *)
(*                                                                         *)
(* The checker is single-threaded.  Its state is the set of declared       *)
(* objects, the current scope and its parent, the queue of delayed         *)
(* function-literal bodies, and the operand under inspection.  Every       *)
(* operation additionally leaves a record of what it did (diagnostics it   *)
(* reported, its result, the state it started from) so that properties of  *)
(* one call can be stated over states.                                     *)
(***************************************************************************)
EXTENDS Integers, Sequences, FiniteSets, TLC

VARIABLES
    objs,      \* object id -> [kind, name, typ, used, pkg]   (Var / other objects)
    scope,     \* check.scope: name -> object id, 0 when absent
    outer,     \* parent scopes of check.scope, flattened: name -> object id or 0
    delayed,   \* check.delayed: sequence of pending function-literal bodies
    x,         \* the operand handed to the single-operand operations
    op,        \* the operation that ran last and its arguments
    diags,     \* diagnostics reported by the last operation, in order
    ret,       \* result of the last operation
    xerr,      \* an error has been reported for x (or x is the invalid operand)
    pre,       \* [x, xerr, objs, scope] at the start of the last operation
    trace,     \* what the last operation did internally (slots checked, lookups)
    sv         \* activation record of a running shortVarDecl (pc = 0 when none)

vars == <<objs, scope, outer, delayed, x, xerr, op, diags, ret, pre, trace, sv>>

----------------------------------------------------------------------------
(* Bounds                                                                  *)

\* longest left-hand / right-hand list of a multi-assignment
MaxLen == 2

----------------------------------------------------------------------------
(* Types (Type values are represented by their names)                      *)

\* the Go nil Type: "no type" / type not yet set
NoType == "<nil>"
\* Typ[Invalid]
Invalid == "invalid type"
UntypedInt == "untyped int"
UntypedFloat == "untyped float"
UntypedNil == "untyped nil"
UntypedBool == "untyped bool"

TypedTypes == {"int", "float64", "string", "bool", "iface", "ptr", "func", "genfunc"}
UntypedTypes == {UntypedInt, UntypedFloat, UntypedNil, UntypedBool}

isUntyped(t) == t \in UntypedTypes

\* Default type of an untyped constant kind; nil and typed types are unchanged
Default(t) ==
    CASE t = UntypedInt -> "int"
      [] t = UntypedFloat -> "float64"
      [] t = UntypedBool -> "bool"
      [] OTHER -> t

\* interface that is not a type parameter
isNonTypeParamInterface(t) == t = "iface"

\* under(t) is a *Signature with at least one own type parameter
isGenericSignature(t) == t = "genfunc"

\* types that have the value nil
hasNil(t) == t \in {"iface", "ptr", "func", "genfunc"}

----------------------------------------------------------------------------
(* Operands                                                                *)

AssignableModes ==
    {"constant_", "variable", "mapindex", "value", "nilvalue", "commaok", "commaerr"}

Operand(m, t, v) == [mode |-> m, typ |-> t, val |-> v]

\* the zero operand (var x operand)
NoOperand == Operand("invalid", Invalid, "none")

isNil(o) == o.mode = "nilvalue"

\* a diagnostic: its error code and what it is reported about
Diag(code, about) == [code |-> code, about |-> about]

\* check.singleValue: reduce a two-result operand to its primary value
singleValue(o) ==
    IF o.mode \in {"commaok", "commaerr"} THEN [o EXCEPT !.mode = "value"] ELSE o

\* check.implicitTypeAndValue: conversion of an untyped operand to target.
\* Result [typ, val, code]; code "0" is success, val "none" is "no new value".
implicitTypeAndValue(o, target) ==
    IF o.mode = "invalid" \/ ~isUntyped(o.typ) \/ target = Invalid
        THEN [typ |-> o.typ, val |-> "none", code |-> "0"]
    ELSE IF isNil(o)
        THEN IF hasNil(target)
                THEN [typ |-> target, val |-> "none", code |-> "0"]
                ELSE [typ |-> NoType, val |-> "none", code |-> "InvalidUntypedConversion"]
    ELSE IF o.mode # "constant_"
        THEN IF o.typ = UntypedBool /\ target = "bool"
                THEN [typ |-> target, val |-> "none", code |-> "0"]
                ELSE [typ |-> NoType, val |-> "none", code |-> "InvalidUntypedConversion"]
    ELSE CASE target = "int" ->
                CASE o.val = "big" -> [typ |-> NoType, val |-> "none", code |-> "NumericOverflow"]
                  [] o.val = "frac" -> [typ |-> NoType, val |-> "none", code |-> "TruncatedFloat"]
                  [] OTHER -> [typ |-> target, val |-> o.val, code |-> "0"]
           [] target = "float64" -> [typ |-> target, val |-> o.val, code |-> "0"]
           [] OTHER -> [typ |-> NoType, val |-> "none", code |-> "InvalidUntypedConversion"]

\* operand.assignableTo: the assignability oracle. Result [ok, code, cause].
assignableTo(o, T) ==
    IF o.mode = "invalid" \/ T = Invalid \/ o.typ = Invalid
        THEN [ok |-> TRUE, code |-> "0", cause |-> ""]
    ELSE IF o.typ = T
        THEN [ok |-> TRUE, code |-> "0", cause |-> ""]
    ELSE IF T = "iface"
        THEN IF o.typ \in {"int", "ptr"}
                THEN [ok |-> TRUE, code |-> "0", cause |-> ""]
                ELSE [ok |-> FALSE, code |-> "InvalidIfaceAssign", cause |-> "missing method"]
    ELSE [ok |-> FALSE, code |-> "IncompatibleAssign", cause |-> ""]

----------------------------------------------------------------------------
(* assignment (lines 21-99).  Result: [x, diags].                          *)

\* the mode switch without its case for invalid operands
assignmentModeCaseNoInvalid(o) ==
    IF o.mode \in AssignableModes THEN "ok" ELSE "error"

\* lines 24-34: the mode switch.  "return": error reported before;
\* "error": report IncompatibleAssign and return; "ok": go on.
assignmentModeCase(o) ==
    CASE o.mode = "invalid" -> "return"
      [] o.mode \in AssignableModes -> "ok"
      [] OTHER -> "error"

\* lines 29-33: the default case of the mode switch
assignmentDefaultCase(o) ==
    [x |-> o, diags |-> <<Diag("IncompatibleAssign", "operand")>>]

\* lines 36-75: conversion of an untyped operand.
\* Result [x, diags, done]; done = the function has returned.
assignmentUntyped(o, T, context) ==
    IF isNil(o) /\ T = NoType
        THEN [x |-> [o EXCEPT !.mode = "invalid"],
              diags |-> <<Diag("UntypedNilUse", "operand")>>, done |-> TRUE]
    ELSE
        LET conv(r) ==
                IF r.code # "0"
                    THEN [x |-> [o EXCEPT !.mode = "invalid"],
                          diags |-> <<Diag(IF r.code \in {"TruncatedFloat", "NumericOverflow"}
                                              THEN r.code ELSE "IncompatibleAssign",
                                           "operand")>>,
                          done |-> TRUE]
                    ELSE [x |-> [o EXCEPT !.val = IF r.val # "none" THEN r.val ELSE @,
                                          !.typ = r.typ],
                          diags |-> <<>>, done |-> FALSE]
        IN  conv(implicitTypeAndValue(o,
                    IF ~isNil(o) /\ (T = NoType \/ isNonTypeParamInterface(T))
                        THEN Default(o.typ) ELSE T))

\* lines 78-81: a generic function value cannot be assigned
assignmentGeneric(o) ==
    IF isGenericSignature(o.typ)
        THEN [x |-> o, diags |-> <<Diag("WrongTypeArgCount", "operand")>>, done |-> FALSE]
        ELSE [x |-> o, diags |-> <<>>, done |-> FALSE]

\* the assignability check without the return for a blank target
assignmentCheckNoBlank(o, T) ==
    LET res(a) ==
            IF ~a.ok
                THEN [x |-> [o EXCEPT !.mode = "invalid"], diags |-> <<Diag(a.code, "operand")>>]
                ELSE [x |-> o, diags |-> <<>>]
    IN  res(assignableTo(o, T))

\* lines 86-98: blank target, else the assignability check
assignmentCheck(o, T) ==
    LET res(a) ==
            IF ~a.ok
                THEN [x |-> [o EXCEPT !.mode = "invalid"], diags |-> <<Diag(a.code, "operand")>>]
                ELSE [x |-> o, diags |-> <<>>]
    IN  IF T = NoType THEN [x |-> o, diags |-> <<>>]
        ELSE res(assignableTo(o, T))

assignment(o0, T, context) ==
    LET afterGeneric(u, g) ==
            LET fin(a) == [x |-> a.x, diags |-> u.diags \o g.diags \o a.diags]
            IN  fin(assignmentCheck(g.x, T))
        afterUntyped(u) ==
            IF u.done THEN [x |-> u.x, diags |-> u.diags]
            ELSE afterGeneric(u, assignmentGeneric(u.x))
        body(o, c) ==
            IF c = "return" THEN [x |-> o, diags |-> <<>>]
            ELSE IF c = "error" THEN assignmentDefaultCase(o)
            ELSE afterUntyped(IF isUntyped(o.typ)
                                THEN assignmentUntyped(o, T, context)
                                ELSE [x |-> o, diags |-> <<>>, done |-> FALSE])
    IN  body(singleValue(o0), assignmentModeCase(singleValue(o0)))

----------------------------------------------------------------------------
(* Objects, scopes and expressions                                         *)

Names == {"a", "b", "d", "f", "_"}

FreeObj == [kind |-> "free", name |-> "", typ |-> NoType, used |-> FALSE, pkg |-> ""]

\* NewVar(pos, pkg, name, typ)
NewVar(pkg, name, typ) ==
    [kind |-> "var", name |-> name, typ |-> typ, used |-> FALSE, pkg |-> pkg]

\* objects that exist before any statement is checked: var a, declared in an
\* enclosing scope of this package; var d, dot-imported from another package;
\* const f, declared in the current scope
InitObjs ==
    << NewVar("local", "a", "int"),
       NewVar("other", "d", "int"),
       [kind |-> "const", name |-> "f", typ |-> "int", used |-> FALSE, pkg |-> "local"] >>

\* names a short variable declaration may add to the scope
DeclNames == <<"a", "b">>

\* ids (addresses) for objects: the initial ones, one per name a short
\* declaration can add to the scope, and the other variables of one statement
MaxObj == Len(InitObjs) + Len(DeclNames) + MaxLen
ObjIds == 1..MaxObj

\* the address NewVar gives a new variable of that name: one address per
\* declarable name, and the least unused one for any other variable
freshId(os, name) ==
    IF \E k \in 1..Len(DeclNames) : DeclNames[k] = name
        THEN Len(InitObjs) + (CHOOSE k \in 1..Len(DeclNames) : DeclNames[k] = name)
        ELSE CHOOSE i \in ObjIds :
                /\ i > Len(InitObjs) + Len(DeclNames)
                /\ os[i].kind = "free"
                /\ \A j \in ObjIds :
                      (j > Len(InitObjs) + Len(DeclNames) /\ os[j].kind = "free") => i <= j

\* Scope.Lookup: the object of that name in this scope alone (0 = nil)
ScopeLookup(sc, name) == sc[name]

\* check.lookup: the object of that name in the current scope or its parents
lookup(name) == IF scope[name] # 0 THEN scope[name] ELSE outer[name]

\* An expression is [k, n, paren]: its kind, the identifier or type it
\* mentions, and whether it is parenthesized.  Kinds: "name" (identifier n),
\* "int1" (1), "intbig" (1 << 100), "fltfrac" (1.5), "nil", "value" (a call
\* with one result of type n), "index" (m[k]), "selindex" (m[k].f), "sel"
\* (g().f), "commaok" (v.(int)), "novalue" (a call without result), "tuple2"
\* (a call with results (int, string)), "funclit" (func() int { return n }(),
\* whose body is checked later), "undef" (an undeclared name).
Expr(k, n) == [k |-> k, n |-> n, paren |-> FALSE]
Paren(e) == [e EXCEPT !.paren = TRUE]

\* unparen(e).(*syntax.Name)
isName(e) == e.k = "name"

\* check.ident: evaluation of an identifier.  Result [x, diags, objs, refs];
\* refs = the object the identifier resolved to.
ident(name, os) ==
    LET res(id) ==
            IF id = 0
                THEN [x |-> NoOperand, diags |-> <<Diag("UndeclaredName", "expr")>>,
                      objs |-> os, refs |-> <<>>]
            ELSE IF os[id].kind = "var"
                THEN [x |-> IF os[id].typ = Invalid THEN NoOperand
                            ELSE Operand("variable", os[id].typ, "none"),
                      diags |-> <<>>,
                      objs |-> IF os[id].pkg = "local" THEN [os EXCEPT ![id].used = TRUE]
                               ELSE os,
                      refs |-> <<id>>]
            ELSE [x |-> Operand("constant_", os[id].typ, "small"), diags |-> <<>>,
                  objs |-> os, refs |-> <<id>>]
    IN  res(lookup(name))

\* check.expr: the external evaluator. Result [x, diags, objs, refs, later];
\* later = the function-literal bodies it queued with check.later.
expr(e, os) ==
    LET plain(o) == [x |-> o, diags |-> <<>>, objs |-> os, refs |-> <<>>, later |-> <<>>]
    IN  CASE e.k = "name" -> ident(e.n, os) @@ [later |-> <<>>]
          [] e.k = "int1" -> plain(Operand("constant_", UntypedInt, "small"))
          [] e.k = "intbig" -> plain(Operand("constant_", UntypedInt, "big"))
          [] e.k = "fltfrac" -> plain(Operand("constant_", UntypedFloat, "frac"))
          [] e.k = "nil" -> plain(Operand("nilvalue", UntypedNil, "none"))
          [] e.k = "value" -> plain(Operand("value", e.n, "none"))
          [] e.k = "index" -> plain(Operand("mapindex", "int", "none"))
          [] e.k = "selindex" -> plain(Operand("value", "int", "none"))
          [] e.k = "commaok" -> plain(Operand("commaok", "int", "none"))
          [] e.k = "novalue" -> plain(Operand("novalue", "func", "none"))
          [] e.k = "funclit" ->
                [x |-> Operand("value", "int", "none"), diags |-> <<>>, objs |-> os,
                 refs |-> <<>>, later |-> <<[n |-> e.n]>>]
          [] OTHER ->
                [x |-> NoOperand, diags |-> <<Diag("UndeclaredName", "expr")>>,
                 objs |-> os, refs |-> <<>>, later |-> <<>>]

\* sel.X of a selector expression
selX(e) == IF e.k = "selindex" THEN Expr("index", "") ELSE Expr("value", "int")

isSelector(e) == e.k \in {"selindex", "sel"} /\ ~e.paren

\* check.use(e): evaluate e for its side effects. Result [diags, objs].
use(e, os) ==
    IF isName(e) /\ e.n = "_" THEN [diags |-> <<>>, objs |-> os]
    ELSE LET res(r) == [diags |-> r.diags, objs |-> r.objs] IN res(expr(e, os))

----------------------------------------------------------------------------
(* initConst (lines 101-130).  Result: [lhs, x, diags].                    *)

initConst(lhs, o) ==
    LET fin(lhs1, a) ==
            IF a.x.mode = "invalid"
                THEN [lhs |-> lhs1, x |-> a.x, diags |-> a.diags]
                ELSE [lhs |-> [lhs1 EXCEPT !.val = a.x.val], x |-> a.x, diags |-> a.diags]
        typed(lhs1) == fin(lhs1, assignment(o, lhs1.typ, "constant declaration"))
    IN  IF o.mode = "invalid" \/ o.typ = Invalid \/ lhs.typ = Invalid
            THEN [lhs |-> [lhs EXCEPT !.typ = IF @ = NoType THEN Invalid ELSE @],
                  x |-> o, diags |-> <<>>]
        ELSE IF o.mode # "constant_"
            THEN [lhs |-> [lhs EXCEPT !.typ = IF @ = NoType THEN Invalid ELSE @],
                  x |-> o, diags |-> <<Diag("InvalidConstInit", "operand")>>]
        ELSE typed([lhs EXCEPT !.typ = IF @ = NoType THEN o.typ ELSE @])

----------------------------------------------------------------------------
(* initVar (lines 132-165).  Result: [lhs, x, diags, ret]; ret = NoType is *)
(* the nil result.                                                         *)

\* lines 133-141: operand or variable already invalid
initVarInvalid(lhs, o) ==
    [lhs |-> [lhs EXCEPT !.typ = IF @ = NoType THEN Invalid ELSE @, !.used = TRUE],
     x |-> o, diags |-> <<>>, ret |-> NoType]

\* lines 144-156: infer the type of a variable that has none.
\* Result [lhs, diags, done]; done = initVar has returned nil.
initVarInfer(lhs, o, context) ==
    IF lhs.typ # NoType THEN [lhs |-> lhs, diags |-> <<>>, done |-> FALSE]
    ELSE IF isUntyped(o.typ) /\ o.typ = UntypedNil
        THEN [lhs |-> [lhs EXCEPT !.typ = Invalid],
              diags |-> <<Diag("UntypedNilUse", "operand")>>, done |-> TRUE]
    ELSE [lhs |-> [lhs EXCEPT !.typ = IF isUntyped(o.typ) THEN Default(o.typ) ELSE o.typ],
          diags |-> <<>>, done |-> FALSE]

\* lines 158-164: delegate to assignment and return
initVarAssign(lhs, o, context) ==
    LET fin(a) ==
            IF a.x.mode = "invalid"
                THEN [lhs |-> [lhs EXCEPT !.used = TRUE], x |-> a.x, diags |-> a.diags,
                      ret |-> NoType]
                ELSE [lhs |-> lhs, x |-> a.x, diags |-> a.diags, ret |-> a.x.typ]
    IN  fin(assignment(o, lhs.typ, context))

initVar(lhs, o, context) ==
    LET prepend(ds, r) == [r EXCEPT !.diags = ds \o @]
        inferred(i) ==
            IF i.done
                THEN [lhs |-> i.lhs, x |-> o, diags |-> i.diags, ret |-> NoType]
                ELSE prepend(i.diags, initVarAssign(i.lhs, o, context))
    IN  IF o.mode = "invalid" \/ o.typ = Invalid \/ lhs.typ = Invalid
            THEN initVarInvalid(lhs, o)
            ELSE inferred(initVarInfer(lhs, o, context))

----------------------------------------------------------------------------
(* lhsVar (lines 171-230).  Result: [T, diags, objs, evals]; evals = how   *)
(* often the left-hand expression itself was evaluated.                    *)

\* lines 184-196: the local variable an identifier denotes, 0 if none
lhsVarObj(lhs, os) ==
    IF isName(lhs) /\ lookup(lhs.n) # 0
            /\ os[lookup(lhs.n)].kind = "var" /\ os[lookup(lhs.n)].pkg = "local"
        THEN lookup(lhs.n) ELSE 0

\* lhsVar without restoring v.used
lhsVarNoRestore(v, v_used, os) == os

\* lines 201-203: restore v.used
lhsVarRestore(v, v_used, os) ==
    IF v # 0 THEN [os EXCEPT ![v].used = v_used] ELSE os

\* lines 205-229: classify the evaluated operand. Result [T, diags, objs].
lhsVarMode(lhs, o, os) ==
    LET base(b) ==
            [T |-> Invalid, objs |-> b.objs,
             diags |-> b.diags \o <<Diag(IF b.x.mode = "mapindex"
                                            THEN "UnaddressableFieldAssign"
                                            ELSE "UnassignableOperand", "lhs")>>]
    IN  IF o.mode = "invalid" \/ o.typ = Invalid
            THEN [T |-> Invalid, diags |-> <<>>, objs |-> os]
        ELSE IF o.mode \in {"variable", "mapindex"}
            THEN [T |-> o.typ, diags |-> <<>>, objs |-> os]
        ELSE IF isSelector(lhs)
            THEN base(expr(selX(lhs), os))
        ELSE [T |-> Invalid, diags |-> <<Diag("UnassignableOperand", "lhs")>>, objs |-> os]

lhsVar(lhs, os) ==
    LET fin(e, m) ==
            [T |-> m.T, diags |-> e.diags \o m.diags, objs |-> m.objs, evals |-> 1]
        evaluated(v, v_used, e) ==
            fin(e, lhsVarMode(lhs, e.x, lhsVarRestore(v, v_used, e.objs)))
        found(v) == evaluated(v, IF v # 0 THEN os[v].used ELSE FALSE, expr(lhs, os))
    IN  IF isName(lhs) /\ lhs.n = "_"
            THEN [T |-> NoType, diags |-> <<>>, objs |-> os, evals |-> 0]
            ELSE found(lhsVarObj(lhs, os))

----------------------------------------------------------------------------
(* assignVar (lines 234-255).  Result: [x, diags, objs, ret, evals].       *)

assignVar(lhs, o, os) ==
    LET used(u) ==
            [x |-> o, diags |-> u.diags, objs |-> u.objs, ret |-> NoType,
             evals |-> IF isName(lhs) /\ lhs.n = "_" THEN 0 ELSE 1]
        fin(l, a) ==
            [x |-> a.x, diags |-> l.diags \o a.diags, objs |-> l.objs,
             ret |-> IF a.x.mode = "invalid" THEN NoType ELSE a.x.typ,
             evals |-> l.evals]
        target(l) ==
            IF l.T = Invalid
                THEN [x |-> o, diags |-> l.diags, objs |-> l.objs, ret |-> NoType,
                      evals |-> l.evals]
                ELSE fin(l, assignment(o, l.T,
                                IF l.T = NoType THEN "assignment to _ identifier"
                                                ELSE "assignment"))
    IN  IF o.mode = "invalid" \/ o.typ = Invalid
            THEN used(use(lhs, os))
            ELSE target(lhsVar(lhs, os))

----------------------------------------------------------------------------
(* exprList: evaluation of a right-hand side.                              *)
(* Result [xs, commaOk, diags, objs, refs, later].                         *)

RECURSIVE exprEach(_, _, _)
\* check.expr on es[i], es[i+1], ... in order
exprEach(es, i, acc) ==
    LET add(r) ==
            [xs |-> Append(acc.xs, r.x), commaOk |-> FALSE,
             diags |-> acc.diags \o r.diags, objs |-> r.objs,
             refs |-> acc.refs \o r.refs, later |-> acc.later \o r.later]
    IN  IF i > Len(es) THEN acc
        ELSE exprEach(es, i + 1,
                      add(expr(IF es[i].k = "tuple2" THEN Expr("undef", "") ELSE es[i],
                               acc.objs)))

exprList(es, allowCommaOk, os) ==
    LET one(r) ==
            IF allowCommaOk /\ r.x.mode \in {"mapindex", "commaok", "commaerr"}
                THEN [xs |-> <<[r.x EXCEPT !.mode = "value"],
                               Operand("value", UntypedBool, "none")>>,
                      commaOk |-> TRUE, diags |-> r.diags, objs |-> r.objs,
                      refs |-> r.refs, later |-> r.later]
                ELSE [xs |-> <<r.x>>, commaOk |-> FALSE, diags |-> r.diags,
                      objs |-> r.objs, refs |-> r.refs, later |-> r.later]
    IN  IF Len(es) = 1 /\ es[1].k = "tuple2"
            THEN [xs |-> <<Operand("value", "int", "none"),
                           Operand("value", "string", "none")>>,
                  commaOk |-> FALSE, diags |-> <<>>, objs |-> os, refs |-> <<>>,
                  later |-> <<>>]
        ELSE IF Len(es) = 1
            THEN one(expr(es[1], os))
        ELSE exprEach(es, 1, [xs |-> <<>>, commaOk |-> FALSE, diags |-> <<>>, objs |-> os,
                              refs |-> <<>>, later |-> <<>>])

anyInvalid(xs) == \E i \in 1..Len(xs) : xs[i].mode = "invalid"

\* assignError (lines 316-328) and the return-statement report (lines 349-364)
assignError(returnStmt) ==
    IF returnStmt THEN <<Diag("WrongResultCount", "stmt")>>
                  ELSE <<Diag("WrongAssignCount", "stmt")>>

----------------------------------------------------------------------------
(* initVars (lines 332-397).                                               *)
(* Result [objs, diags, slots, evals, later, m, n, failed]: slots = the    *)
(* pairs handed to initVar, in call order; failed = some pair failed.      *)

\* invalidation that overwrites a type already set
initVarsInvalidateAlways(lhs, os) ==
    [i \in ObjIds |->
        IF \E k \in 1..Len(lhs) : lhs[k] = i
            THEN [os[i] EXCEPT !.used = TRUE, !.typ = Invalid]
            ELSE os[i]]

\* lines 336-342: invalidate lhs
initVarsInvalidate(lhs, os) ==
    [i \in ObjIds |->
        IF \E k \in 1..Len(lhs) : lhs[k] = i
            THEN [os[i] EXCEPT !.used = TRUE, !.typ = IF @ = NoType THEN Invalid ELSE @]
            ELSE os[i]]

\* the arity diagnostic reported even after an earlier error
initVarsArityDiagAlways(xs, returnStmt) == assignError(returnStmt)

\* lines 343-367: the arity diagnostic, unless an error was reported before
initVarsArityDiag(xs, returnStmt) ==
    IF anyInvalid(xs) THEN <<>> ELSE assignError(returnStmt)

RECURSIVE initVarsLoop(_, _, _, _, _, _)
\* lines 376-379 and 385-389: initVar on the pairs i..last, in order
initVarsLoop(lhs, xs, context, i, last, acc) ==
    LET add(r) ==
            [objs |-> [acc.objs EXCEPT ![lhs[i]] = r.lhs],
             diags |-> acc.diags \o r.diags,
             slots |-> Append(acc.slots, i),
             failed |-> acc.failed \/ r.ret = NoType]
    IN  IF i > last THEN acc
        ELSE initVarsLoop(lhs, xs, context, i + 1, last,
                          add(initVar(acc.objs[lhs[i]], xs[i], context)))

\* lines 392-396: mark every lhs used if any initialization failed
initVarsForceUsed(lhs, failed, os) ==
    IF failed
        THEN [i \in ObjIds |->
                IF \E k \in 1..Len(lhs) : lhs[k] = i THEN [os[i] EXCEPT !.used = TRUE]
                                                    ELSE os[i]]
        ELSE os

initVars(lhs, orig_rhs, returnStmt, os) ==
    LET base(r) ==
            [diags |-> r.diags, later |-> r.later, m |-> Len(lhs), n |-> Len(r.xs),
             evals |-> <<>>, commaOk |-> r.commaOk, refs |-> r.refs,
             rhsInvalid |-> anyInvalid(r.xs)]
        pairs(r, l) ==
            [base(r) EXCEPT !.diags = @ \o l.diags]
                @@ [objs |-> IF r.commaOk THEN l.objs
                             ELSE initVarsForceUsed(lhs, l.failed, l.objs),
                    slots |-> l.slots, failed |-> l.failed, arity |-> <<>>]
        rhs(r) ==
            IF Len(lhs) # Len(r.xs)
                THEN base(r) @@ [objs |-> initVarsInvalidate(lhs, r.objs), slots |-> <<>>,
                                 failed |-> FALSE,
                                 arity |-> initVarsArityDiag(r.xs, returnStmt)]
                ELSE pairs(r, initVarsLoop(lhs, r.xs,
                                IF returnStmt THEN "return statement" ELSE "assignment",
                                1, IF r.commaOk THEN 2 ELSE Len(lhs),
                                [objs |-> r.objs, diags |-> <<>>, slots |-> <<>>,
                                 failed |-> FALSE]))
    IN  rhs(exprList(orig_rhs, Len(lhs) = 2 /\ ~returnStmt, os))

----------------------------------------------------------------------------
(* assignVars (lines 399-444).  Result as for initVars; evals[i] = how     *)
(* often the i-th left-hand expression was evaluated.                      *)

\* lines 404-410: the arity diagnostic, unless an error was reported before
assignVarsArityDiag(xs) ==
    IF anyInvalid(xs) THEN <<>> ELSE assignError(FALSE)

RECURSIVE useEach(_, _, _)
\* check.use(lhs...)
useEach(lhs, i, acc) ==
    LET add(u) ==
            [objs |-> u.objs, diags |-> acc.diags \o u.diags,
             evals |-> Append(acc.evals,
                              IF isName(lhs[i]) /\ lhs[i].n = "_" THEN 0 ELSE 1)]
    IN  IF i > Len(lhs) THEN acc
        ELSE useEach(lhs, i + 1, add(use(lhs[i], acc.objs)))

RECURSIVE assignVarsLoop(_, _, _, _, _)
\* lines 416-418 and 424-428: assignVar on the pairs i..last, in order
assignVarsLoop(lhs, xs, i, last, acc) ==
    LET add(r) ==
            [objs |-> r.objs,
             diags |-> acc.diags \o r.diags,
             slots |-> Append(acc.slots, i),
             evals |-> Append(acc.evals, r.evals),
             failed |-> acc.failed \/ r.ret = NoType]
    IN  IF i > last THEN acc
        ELSE assignVarsLoop(lhs, xs, i + 1, last, add(assignVar(lhs[i], xs[i], acc.objs)))

\* marking the left-hand variables used with check.use(lhs...), which
\* evaluates the left-hand expressions again
assignVarsForceUsedByUse(lhs, failed, os, evals) ==
    LET again(u) ==
            [objs |-> u.objs,
             evals |-> [i \in 1..Len(evals) |-> evals[i] + u.evals[i]]]
    IN  IF ~failed THEN [objs |-> os, evals |-> evals]
        ELSE again(useEach(lhs, 1, [objs |-> os, diags |-> <<>>, evals |-> <<>>]))

\* lines 431-443: mark the variables named on the left used, without
\* evaluating the left-hand expressions again. Result [objs, evals].
assignVarsForceUsed(lhs, failed, os, evals) ==
    IF ~failed THEN [objs |-> os, evals |-> evals]
    ELSE [objs |-> [i \in ObjIds |->
                      IF \E k \in 1..Len(lhs) :
                            /\ isName(lhs[k]) /\ lookup(lhs[k].n) = i
                            /\ os[i].kind = "var" /\ os[i].pkg = "local"
                         THEN [os[i] EXCEPT !.used = TRUE] ELSE os[i]],
          evals |-> evals]

assignVars(lhs, orig_rhs, os) ==
    LET base(r) ==
            [later |-> r.later, m |-> Len(lhs), n |-> Len(r.xs), commaOk |-> r.commaOk,
             refs |-> r.refs, rhsInvalid |-> anyInvalid(r.xs)]
        mismatch(r, u) ==
            base(r) @@ [objs |-> u.objs, diags |-> r.diags \o u.diags, evals |-> u.evals,
                        slots |-> <<>>, failed |-> FALSE,
                        arity |-> assignVarsArityDiag(r.xs)]
        forced(r, l, f) ==
            base(r) @@ [objs |-> f.objs, diags |-> r.diags \o l.diags, evals |-> f.evals,
                        slots |-> l.slots, failed |-> l.failed, arity |-> <<>>]
        pairs(r, l) ==
            forced(r, l, IF r.commaOk THEN [objs |-> l.objs, evals |-> l.evals]
                         ELSE assignVarsForceUsed(lhs, l.failed, l.objs, l.evals))
        rhs(r) ==
            IF Len(lhs) # Len(r.xs)
                THEN mismatch(r, useEach(lhs, 1, [objs |-> r.objs, diags |-> <<>>,
                                                  evals |-> <<>>]))
                ELSE pairs(r, assignVarsLoop(lhs, r.xs, 1,
                                IF r.commaOk THEN 2 ELSE Len(lhs),
                                [objs |-> r.objs, diags |-> <<>>, slots |-> <<>>,
                                 evals |-> <<>>, failed |-> FALSE]))
    IN  rhs(exprList(orig_rhs, Len(lhs) = 2, os))

----------------------------------------------------------------------------
(* shortVarDecl (lines 461-540)                                            *)

RECURSIVE shortVarDeclCollect(_, _, _, _)
\* lines 470-512: collect lhs variables.
\* acc = [objs, seen, lhsVars, newVars, hasErr, diags]; lhsVars[i] = 0 is nil.
shortVarDeclCollect(lhs, i, sc, acc) ==
    LET nonName(u) ==
            [acc EXCEPT !.objs = u.objs,
                        !.diags = @ \o u.diags \o <<Diag("BadDecl", "lhs")>>,
                        !.hasErr = TRUE,
                        !.lhsVars = Append(@, 0)]
        named(name, alt, id) ==
            IF name # "_" /\ name \in acc.seen
                THEN [acc EXCEPT !.diags = @ \o <<Diag("RepeatedDecl", "lhs")>>,
                                 !.hasErr = TRUE,
                                 !.lhsVars = Append(@, 0)]
            ELSE IF alt # 0
                THEN IF acc.objs[alt].kind = "var"
                        THEN [acc EXCEPT !.seen = @ \cup {name},
                                         !.lhsVars = Append(@, alt)]
                        ELSE [acc EXCEPT !.seen = @ \cup {name},
                                         !.diags = @ \o <<Diag("UnassignableOperand", "lhs")>>,
                                         !.hasErr = TRUE,
                                         !.lhsVars = Append(@, 0)]
            ELSE [acc EXCEPT !.seen = @ \cup {name},
                             !.objs = [@ EXCEPT ![id] = NewVar("local", name, NoType)],
                             !.lhsVars = Append(@, id),
                             !.newVars = IF name # "_" THEN Append(@, id) ELSE @]
    IN  IF i > Len(lhs) THEN acc
        ELSE shortVarDeclCollect(lhs, i + 1, sc,
                IF ~(lhs[i].k = "name" /\ ~lhs[i].paren)
                    THEN nonName(use(lhs[i], acc.objs))
                    ELSE named(lhs[i].n, ScopeLookup(sc, lhs[i].n), freshId(acc.objs, lhs[i].n)))

RECURSIVE shortVarDeclDummies(_, _)
\* lines 515-519: create dummy variables where the lhs is invalid
shortVarDeclDummies(i, acc) ==
    LET dummy(id) ==
            [acc EXCEPT !.objs = [@ EXCEPT ![id] = NewVar("local", "_", NoType)],
                        !.lhsVars = [@ EXCEPT ![i] = id]]
    IN  IF i > Len(acc.lhsVars) THEN acc
        ELSE shortVarDeclDummies(i + 1,
                IF acc.lhsVars[i] = 0 THEN dummy(freshId(acc.objs, "_")) ELSE acc)

\* the new variables declared before the delayed bodies are processed
shortVarDeclOrderDeclareEarly == <<"initVars", "declare", "processDelayed">>

\* lines 521-539: what shortVarDecl does after collecting, in order
shortVarDeclOrder == <<"initVars", "processDelayed", "declare">>

\* the "no new variables" condition without regard to earlier errors
shortVarDeclNoNewIgnoringErr(newVars, hasErr) == Len(newVars) = 0

\* line 526: the "no new variables" condition
shortVarDeclNoNew(newVars, hasErr) == Len(newVars) = 0 /\ ~hasErr

RECURSIVE declareAll(_, _, _, _)
\* lines 537-539: check.declare on each new variable (Scope.Insert)
declareAll(newVars, i, os, sc) ==
    IF i > Len(newVars) THEN sc
    ELSE declareAll(newVars, i + 1, os,
                    IF os[newVars[i]].name # "_" /\ sc[os[newVars[i]].name] = 0
                        THEN [sc EXCEPT ![os[newVars[i]].name] = newVars[i]]
                        ELSE sc)

\* objects no scope refers to are unreachable once the statement is over
reachable(os, sc, out) ==
    [i \in ObjIds |->
        IF \E n \in Names : sc[n] = i \/ out[n] = i THEN os[i] ELSE FreeObj]

----------------------------------------------------------------------------
(* The state machine                                                       *)

IdleOp == [name |-> "idle"]
NoTrace == [k |-> "none"]
IdleSv == [pc |-> 0]
Snapshot == [x |-> x, xerr |-> xerr, objs |-> objs, scope |-> scope]

\* no operation is running and the last statement's record has been cleared
Clean == sv.pc = 0 /\ op = IdleOp

InitScope == [n \in Names |-> IF n = "f" THEN 3 ELSE 0]
InitOuter == [n \in Names |-> IF n = "a" THEN 1 ELSE IF n = "d" THEN 2 ELSE 0]

Init ==
    /\ objs = [i \in ObjIds |-> IF i <= Len(InitObjs) THEN InitObjs[i] ELSE FreeObj]
    /\ scope = InitScope
    /\ outer = InitOuter
    /\ delayed = <<[n |-> "d"]>>
    /\ x = NoOperand
    /\ xerr = TRUE
    /\ op = IdleOp
    /\ diags = <<>>
    /\ ret = "none"
    /\ pre = [x |-> NoOperand, xerr |-> TRUE,
              objs |-> [i \in ObjIds |-> IF i <= Len(InitObjs) THEN InitObjs[i] ELSE FreeObj],
              scope |-> InitScope]
    /\ trace = NoTrace
    /\ sv = IdleSv

\* expressions a caller evaluates into the operand x
OperandExprs ==
    { Expr("int1", ""), Expr("intbig", ""), Expr("fltfrac", ""), Expr("nil", ""),
      Expr("value", "string"), Expr("value", "ptr"), Expr("value", "genfunc"),
      Expr("novalue", ""), Expr("undef", ""), Expr("name", "a"), Expr("name", "f"),
      Expr("commaok", ""), Expr("index", "") }

\* left-hand sides of an assignment
LhsExprs ==
    { Expr("name", "_"), Expr("name", "a"), Paren(Expr("name", "a")), Expr("name", "d"),
      Expr("name", "f"), Expr("index", ""), Expr("selindex", ""), Expr("sel", ""),
      Expr("undef", "") }

\* target types of assignment / declared types of a constant or variable
TargetTypes == {NoType, "int", "string", "iface", "ptr"}
DeclaredTypes == {NoType, "int", "iface", Invalid}

\* the caller evaluates an expression: x is a new operand
Evaluate(e) ==
    /\ sv.pc = 0
    /\ LET done(r) ==
               /\ x' = r.x
               /\ xerr' = (r.x.mode = "invalid" \/ r.diags # <<>>)
               /\ objs' = r.objs
               /\ diags' = r.diags
       IN  done(expr(e, objs))
    /\ op' = [name |-> "expr", e |-> e]
    /\ ret' = "none"
    /\ pre' = Snapshot
    /\ trace' = NoTrace
    /\ UNCHANGED <<scope, outer, delayed, sv>>

aboutOperand(ds) == \E i \in 1..Len(ds) : ds[i].about = "operand"

Assignment(T) ==
    /\ sv.pc = 0
    /\ LET done(r) ==
               /\ x' = r.x
               /\ xerr' = (xerr \/ aboutOperand(r.diags))
               /\ diags' = r.diags
       IN  done(assignment(x, T, "assignment"))
    /\ op' = [name |-> "assignment", T |-> T]
    /\ ret' = "none"
    /\ pre' = Snapshot
    /\ trace' = NoTrace
    /\ UNCHANGED <<objs, scope, outer, delayed, sv>>

\* a constant declaration: lhs is the new Const, with or without a type
InitConst(T) ==
    /\ sv.pc = 0
    /\ LET done(r) ==
               /\ x' = r.x
               /\ xerr' = (xerr \/ aboutOperand(r.diags))
               /\ diags' = r.diags
               /\ trace' = [k |-> "initConst", lhs |-> r.lhs]
       IN  done(initConst([typ |-> T, val |-> "none"], x))
    /\ op' = [name |-> "initConst", T |-> T]
    /\ ret' = "none"
    /\ pre' = Snapshot
    /\ UNCHANGED <<objs, scope, outer, delayed, sv>>

\* a variable declaration: lhs is the new Var, with or without a type
InitVar(T) ==
    /\ sv.pc = 0
    /\ LET done(r) ==
               /\ x' = r.x
               /\ xerr' = (xerr \/ aboutOperand(r.diags))
               /\ diags' = r.diags
               /\ ret' = r.ret
               /\ trace' = [k |-> "initVar", lhs |-> r.lhs]
       IN  done(initVar(NewVar("local", "v", T), x, "variable declaration"))
    /\ op' = [name |-> "initVar", T |-> T]
    /\ pre' = Snapshot
    /\ UNCHANGED <<objs, scope, outer, delayed, sv>>

LhsVar(lhs) ==
    /\ sv.pc = 0
    /\ LET done(r) ==
               /\ objs' = r.objs
               /\ diags' = r.diags
               /\ ret' = r.T
               /\ trace' = [k |-> "lhsVar", evals |-> r.evals]
       IN  done(lhsVar(lhs, objs))
    /\ op' = [name |-> "lhsVar", lhs |-> lhs]
    /\ pre' = Snapshot
    /\ UNCHANGED <<x, xerr, scope, outer, delayed, sv>>

AssignVar(lhs) ==
    /\ sv.pc = 0
    /\ LET done(r) ==
               /\ x' = r.x
               /\ xerr' = (xerr \/ aboutOperand(r.diags))
               /\ objs' = r.objs
               /\ diags' = r.diags
               /\ ret' = r.ret
               /\ trace' = [k |-> "assignVar", evals |-> r.evals]
       IN  done(assignVar(lhs, x, objs))
    /\ op' = [name |-> "assignVar", lhs |-> lhs]
    /\ pre' = Snapshot
    /\ UNCHANGED <<scope, outer, delayed, sv>>

\* the statement is over: its operand and its record are dropped
NextStmt ==
    /\ sv.pc = 0
    /\ op # IdleOp
    /\ x' = NoOperand
    /\ xerr' = TRUE
    /\ op' = IdleOp
    /\ diags' = <<>>
    /\ ret' = "none"
    /\ pre' = [x |-> NoOperand, xerr |-> TRUE, objs |-> objs, scope |-> scope]
    /\ trace' = NoTrace
    /\ UNCHANGED <<objs, scope, outer, delayed, sv>>

----------------------------------------------------------------------------
(* Multi-assignment statements                                             *)

SeqsUpTo(S, n) == UNION {[1..k -> S] : k \in 1..n}

\* right-hand sides of a multi-assignment
RhsExprs ==
    { Expr("int1", ""), Expr("value", "string"), Expr("nil", ""), Expr("undef", ""),
      Expr("tuple2", ""), Expr("commaok", "") }

\* targets of initVars: the existing variable a (a result parameter), or a
\* variable just created by the declaration, with or without a declared type
VarTargets == {"a", NoType, "int"}

\* left-hand sides of assignVars
MultiLhsExprs ==
    { Expr("name", "_"), Expr("name", "a"), Expr("name", "d"), Expr("name", "f"),
      Expr("index", "") }

RECURSIVE makeTargets(_, _, _)
\* the Vars of a declaration: acc = [objs, lhs]
makeTargets(ts, i, acc) ==
    LET new(id) ==
            [objs |-> [acc.objs EXCEPT ![id] = NewVar("local", "v", ts[i])],
             lhs |-> Append(acc.lhs, id)]
    IN  IF i > Len(ts) THEN acc
        ELSE makeTargets(ts, i + 1,
                IF ts[i] = "a" THEN [acc EXCEPT !.lhs = Append(@, lookup("a"))]
                               ELSE new(freshId(acc.objs, "v")))

InitVars(ts, rhs, returnStmt) ==
    /\ Cardinality({i \in 1..Len(ts) : ts[i] = "a"}) <= 1
    /\ objs[lookup("a")].kind = "var"
    /\ LET done(t, r) ==
               /\ objs' = reachable(r.objs, scope, outer)
               /\ diags' = r.diags \o r.arity
               /\ delayed' = delayed \o r.later
               /\ trace' = [k |-> "initVars", m |-> r.m, n |-> r.n, slots |-> r.slots,
                            evals |-> r.evals, failed |-> r.failed, commaOk |-> r.commaOk,
                            rhsInvalid |-> r.rhsInvalid,
                            before |-> [i \in 1..Len(ts) |-> t.objs[t.lhs[i]]],
                            targets |-> [i \in 1..Len(ts) |-> r.objs[t.lhs[i]]]]
           made(t) == done(t, initVars(t.lhs, rhs, returnStmt, t.objs))
       IN  made(makeTargets(ts, 1, [objs |-> objs, lhs |-> <<>>]))
    /\ op' = [name |-> "initVars", returnStmt |-> returnStmt]
    /\ ret' = "none"
    /\ pre' = Snapshot
    /\ UNCHANGED <<x, xerr, scope, outer, sv>>

AssignVars(lhs, rhs) ==
    /\ LET done(r) ==
               /\ objs' = r.objs
               /\ diags' = r.diags \o r.arity
               /\ delayed' = delayed \o r.later
               /\ trace' = [k |-> "assignVars", m |-> r.m, n |-> r.n, slots |-> r.slots,
                            evals |-> r.evals, failed |-> r.failed, commaOk |-> r.commaOk,
                            rhsInvalid |-> r.rhsInvalid]
       IN  done(assignVars(lhs, rhs, objs))
    /\ op' = [name |-> "assignVars", lhs |-> lhs]
    /\ ret' = "none"
    /\ pre' = Snapshot
    /\ UNCHANGED <<x, xerr, scope, outer, sv>>

\* a declaration with initializers or a return statement is checked
InitVarsStmt ==
    /\ Clean
    /\ \E ts \in SeqsUpTo(VarTargets, MaxLen), rhs \in SeqsUpTo(RhsExprs, MaxLen),
          returnStmt \in BOOLEAN : InitVars(ts, rhs, returnStmt)

\* an assignment statement is checked
AssignVarsStmt ==
    /\ Clean
    /\ \E lhs \in SeqsUpTo(MultiLhsExprs, MaxLen), rhs \in SeqsUpTo(RhsExprs, MaxLen) :
          AssignVars(lhs, rhs)

----------------------------------------------------------------------------
(* Short variable declarations, step by step                               *)

\* left-hand and right-hand sides of a short variable declaration
ShortLhsExprs ==
    { Expr("name", "_"), Expr("name", "a"), Expr("name", "b"), Expr("name", "f"),
      Expr("index", "") }
ShortRhsExprs == { Expr("name", "a"), Expr("funclit", "a") }

phase == IF sv.pc = 0 THEN "none" ELSE shortVarDeclOrder[sv.pc]

\* the step after the current one; when there is none the statement is over
\* and its unreachable variables are dropped
Advance(os, sc) ==
    IF sv.pc + 1 > Len(shortVarDeclOrder)
        THEN /\ sv' = IdleSv
             /\ objs' = reachable(os, sc, outer)
        ELSE /\ sv' = [sv EXCEPT !.pc = @ + 1]
             /\ objs' = os

\* lines 462-519
SvCollect(lhs, rhs) ==
    /\ LET done(c) ==
               /\ objs' = c.objs
               /\ diags' = c.diags
               /\ sv' = [pc |-> 1, top |-> Len(delayed), i |-> Len(delayed) + 1,
                         rhs |-> rhs, lhsVars |-> c.lhsVars, newVars |-> c.newVars,
                         hasErr |-> c.hasErr]
               /\ trace' = [k |-> "shortVarDecl", events |-> <<>>, refs |-> <<>>,
                            lhsVars |-> c.lhsVars, top |-> Len(delayed), queued |-> 0]
       IN  done(shortVarDeclDummies(1,
                    shortVarDeclCollect(lhs, 1, scope,
                        [objs |-> objs, seen |-> {}, lhsVars |-> <<>>, newVars |-> <<>>,
                         hasErr |-> FALSE, diags |-> <<>>])))
    /\ op' = [name |-> "shortVarDecl", lhs |-> lhs]
    /\ ret' = "none"
    /\ pre' = Snapshot
    /\ UNCHANGED <<x, xerr, scope, outer, delayed>>

\* a short variable declaration starts
ShortVarDecl ==
    /\ Clean
    /\ \E lhs \in SeqsUpTo(ShortLhsExprs, MaxLen), rhs \in SeqsUpTo(ShortRhsExprs, MaxLen) :
          SvCollect(lhs, rhs)

\* line 521
SvInitVars ==
    /\ phase = "initVars"
    /\ LET done(r) ==
               /\ Advance(r.objs, scope)
               /\ diags' = diags \o r.diags \o r.arity
               /\ delayed' = delayed \o r.later
               /\ trace' = [trace EXCEPT !.events = Append(@, [e |-> "initVars", i |-> 0]),
                                         !.refs = @ \o r.refs,
                                         !.queued = Len(r.later)]
       IN  done(initVars(sv.lhsVars, sv.rhs, FALSE, objs))
    /\ UNCHANGED <<x, xerr, scope, outer, op, ret, pre>>

\* line 524, processDelayed: one delayed function-literal body
SvBody ==
    /\ phase = "processDelayed"
    /\ sv.i <= Len(delayed)
    /\ LET done(r) ==
               /\ objs' = r.objs
               /\ diags' = diags \o r.diags
               /\ trace' = [trace EXCEPT !.events = Append(@, [e |-> "body", i |-> sv.i]),
                                         !.refs = @ \o r.refs]
       IN  done(ident(delayed[sv.i].n, objs))
    /\ sv' = [sv EXCEPT !.i = @ + 1]
    /\ UNCHANGED <<x, xerr, scope, outer, delayed, op, ret, pre>>

\* line 524, processDelayed: all bodies done, the queue is cut back to top
SvDrained ==
    /\ phase = "processDelayed"
    /\ sv.i > Len(delayed)
    /\ delayed' = SubSeq(delayed, 1, sv.top)
    /\ Advance(objs, scope)
    /\ UNCHANGED <<x, xerr, scope, outer, op, diags, ret, pre, trace>>

\* lines 526-539
SvDeclare ==
    /\ phase = "declare"
    /\ IF shortVarDeclNoNew(sv.newVars, sv.hasErr)
          THEN /\ diags' = Append(diags, Diag("NoNewVar", "stmt"))
               /\ scope' = scope
          ELSE /\ diags' = diags
               /\ scope' = declareAll(sv.newVars, 1, objs, scope)
    /\ Advance(objs, scope')
    /\ trace' = [trace EXCEPT !.events = Append(@, [e |-> "declare", i |-> 0])]
    /\ UNCHANGED <<x, xerr, outer, delayed, op, ret, pre>>

----------------------------------------------------------------------------
(* Specifications                                                          *)

\* single-operand checks and multi-assignments
Next ==
    \/ \E e \in OperandExprs : Evaluate(e)
    \/ \E T \in TargetTypes : Assignment(T)
    \/ \E T \in DeclaredTypes : InitConst(T)
    \/ \E T \in DeclaredTypes : InitVar(T)
    \/ \E lhs \in LhsExprs : LhsVar(lhs)
    \/ \E lhs \in LhsExprs : AssignVar(lhs)
    \/ InitVarsStmt
    \/ AssignVarsStmt
    \/ NextStmt

Spec == Init /\ [][Next]_vars

\* short variable declarations and declarations with initializers
NextShort ==
    \/ ShortVarDecl
    \/ SvInitVars
    \/ SvBody
    \/ SvDrained
    \/ SvDeclare
    \/ InitVarsStmt
    \/ NextStmt

SpecShort == Init /\ [][NextShort]_vars

----------------------------------------------------------------------------
(* Properties                                                              *)

hasCode(ds, code) == \E i \in 1..Len(ds) : ds[i].code = code

\* number of arity diagnostics among ds
arityCount(ds) ==
    Cardinality({i \in 1..Len(ds) : ds[i].code \in {"WrongAssignCount", "WrongResultCount"}})

isBlank(e) == isName(e) /\ e.n = "_"

\* C1: after assignment on an operand for which no diagnostic was reported
\* before, x.mode is invalid if and only if the call reported a diagnostic
\* for x.
C1_InvalidIffDiagnostic ==
    (op.name = "assignment" /\ ~pre.xerr)
        => (x.mode = "invalid" <=> aboutOperand(diags))

\* the last call was an assignment to a discard target: assignment with
\* T = nil, directly or from assignVar with the blank identifier on the left
DiscardCall ==
    \/ op.name = "assignment" /\ op.T = NoType
    \/ op.name = "assignVar" /\ isBlank(op.lhs)
            /\ pre.x.mode # "invalid" /\ pre.x.typ # Invalid

\* C2 as stated: assignment to a discard target reports nothing and leaves
\* x valid for every assignable operand that is not the nil literal, whatever
\* its type or value; for the untyped nil literal it reports the untyped-nil
\* diagnostic and invalidates x.
C2_DiscardAlwaysSucceeds ==
    (DiscardCall /\ pre.x.mode \in AssignableModes)
        => /\ pre.x.mode # "nilvalue" => (diags = <<>> /\ x.mode # "invalid")
           /\ (pre.x.mode = "nilvalue" /\ pre.x.typ = UntypedNil)
                => (diags = <<Diag("UntypedNilUse", "operand")>> /\ x.mode = "invalid")

\* an untyped operand that converts to its default type
defaultable(o) == implicitTypeAndValue(o, Default(o.typ)).code = "0"

\* C2 amended: assignment to a discard target reports nothing and leaves x
\* valid for every assignable non-nil operand that is not a generic function
\* value and, if untyped, is representable in its default type; for a generic
\* function value it reports the missing-instantiation diagnostic; for an
\* untyped constant not representable in its default type it reports one
\* diagnostic and invalidates x; for the untyped nil literal it reports the
\* untyped-nil diagnostic and invalidates x.
C2_DiscardSucceedsUnlessGenericOrUnrepresentable ==
    (DiscardCall /\ pre.x.mode \in AssignableModes)
        => /\ (/\ pre.x.mode # "nilvalue"
               /\ ~isGenericSignature(pre.x.typ)
               /\ isUntyped(pre.x.typ) => defaultable(pre.x))
                => (diags = <<>> /\ x.mode # "invalid")
           /\ (pre.x.mode # "nilvalue" /\ isGenericSignature(pre.x.typ))
                => diags = <<Diag("WrongTypeArgCount", "operand")>>
           /\ (pre.x.mode # "nilvalue" /\ isUntyped(pre.x.typ) /\ ~defaultable(pre.x))
                => (Len(diags) = 1 /\ aboutOperand(diags) /\ x.mode = "invalid")
           /\ (pre.x.mode = "nilvalue" /\ pre.x.typ = UntypedNil)
                => (diags = <<Diag("UntypedNilUse", "operand")>> /\ x.mode = "invalid")

\* a typed value was assigned to the blank identifier through assignVar
C2_Witness ==
    /\ op.name = "assignVar" /\ isBlank(op.lhs)
    /\ pre.x.mode = "value" /\ pre.x.typ = "string"
    /\ x.mode = "value" /\ ret = "string" /\ diags = <<>>

\* the last call was initVars or assignVars with m targets and n # m operands
ArityMismatch == op.name \in {"initVars", "assignVars"} /\ trace.m # trace.n

\* the variables named as targets of the last assignVars call
namedVars ==
    {i \in ObjIds : \E k \in 1..Len(op.lhs) :
        isName(op.lhs[k]) /\ lookup(op.lhs[k].n) = i /\ objs[i].kind = "var"}

\* C3 as stated: on an arity mismatch exactly one arity diagnostic is
\* reported, no per-slot check runs, and every target variable is used.
C3_MismatchAlwaysOneDiagnostic ==
    ArityMismatch
        => /\ arityCount(diags) = 1
           /\ trace.slots = <<>> /\ ~aboutOperand(diags)
           /\ op.name = "initVars" => \A i \in 1..trace.m : trace.targets[i].used
           /\ op.name = "assignVars" => \A i \in namedVars : objs[i].used

\* C3 amended: on an arity mismatch exactly one arity diagnostic is reported
\* unless a right-hand operand is already invalid, and then none is; no
\* per-slot check runs; every target Var of initVars, and every variable of
\* the package being checked that assignVars names as a target, is used.
C3_MismatchOneDiagnosticUnlessInvalid ==
    ArityMismatch
        => /\ arityCount(diags) = IF trace.rhsInvalid THEN 0 ELSE 1
           /\ trace.slots = <<>> /\ ~aboutOperand(diags)
           /\ op.name = "initVars" => \A i \in 1..trace.m : trace.targets[i].used
           /\ op.name = "assignVars"
                => \A i \in namedVars : objs[i].pkg = "local" => objs[i].used

\* two targets, one valid operand: the mismatch is reported once and the
\* variable a, unused before, is used afterwards
C3_Witness ==
    /\ op.name = "assignVars" /\ trace.m = 2 /\ trace.n = 1
    /\ ~trace.rhsInvalid /\ arityCount(diags) = 1
    /\ 1 \in namedVars /\ ~pre.objs[1].used /\ objs[1].used

\* a short variable declaration has run to its end
ShortDone == op.name = "shortVarDecl" /\ sv.pc = 0

plainName(e) == e.k = "name" /\ ~e.paren

\* the i-th left-hand side repeats a name that occurs before it
repeated(lhs, i) ==
    plainName(lhs[i]) /\ lhs[i].n # "_"
        /\ \E j \in 1..(i - 1) : plainName(lhs[j]) /\ lhs[j].n = lhs[i].n

\* a left-side error: non-name, repeated name, redeclared non-variable
lhsError(lhs) ==
    \E i \in 1..Len(lhs) :
        \/ ~plainName(lhs[i])
        \/ repeated(lhs, i)
        \/ /\ pre.scope[lhs[i].n] # 0
           /\ pre.objs[pre.scope[lhs[i].n]].kind # "var"

\* the i-th left-hand side is an identifier that is not bound in the scope
unbound(lhs, i) ==
    plainName(lhs[i]) /\ ~repeated(lhs, i) /\ pre.scope[lhs[i].n] = 0

\* the i-th left-hand side reuses a variable of the scope
reused(lhs, i) ==
    /\ plainName(lhs[i]) /\ ~repeated(lhs, i)
    /\ pre.scope[lhs[i].n] # 0
    /\ pre.objs[pre.scope[lhs[i].n]].kind = "var"

\* C4 as stated: "no new variables" is reported exactly when every left-hand
\* identifier is already bound in the scope and no left-side error occurred.
C4_NoNewVarIffAllBound ==
    ShortDone
        => (hasCode(diags, "NoNewVar")
                <=> (/\ ~lhsError(op.lhs)
                     /\ \A i \in 1..Len(op.lhs) : ~unbound(op.lhs, i)))

\* C4 amended: "no new variables" is reported exactly when every left-hand
\* identifier is the blank identifier or already bound in the scope, and no
\* left-side error occurred; a reused name stays bound to the same variable,
\* which is the statement's target, and only the new non-blank names are
\* inserted into the scope.
C4_NoNewVarIffNoNewName ==
    ShortDone
        => /\ hasCode(diags, "NoNewVar")
                <=> (/\ ~lhsError(op.lhs)
                     /\ \A i \in 1..Len(op.lhs) :
                            unbound(op.lhs, i) => op.lhs[i].n = "_")
           /\ \A i \in 1..Len(op.lhs) :
                reused(op.lhs, i)
                    => /\ trace.lhsVars[i] = pre.scope[op.lhs[i].n]
                       /\ scope[op.lhs[i].n] = pre.scope[op.lhs[i].n]
           /\ \A i \in 1..Len(op.lhs) :
                (unbound(op.lhs, i) /\ op.lhs[i].n # "_")
                    => scope[op.lhs[i].n] = trace.lhsVars[i]
           /\ \A n \in Names :
                scope[n] # pre.scope[n]
                    => \E i \in 1..Len(op.lhs) :
                            unbound(op.lhs, i) /\ op.lhs[i].n = n /\ n # "_"

\* a, b := ... where a is a variable of the scope and b is new: no error, a
\* keeps its object and b is inserted
C4_Witness ==
    /\ ShortDone /\ Len(op.lhs) = 2
    /\ op.lhs[1] = Expr("name", "a") /\ op.lhs[2] = Expr("name", "b")
    /\ pre.scope["a"] # 0 /\ pre.scope["b"] = 0
    /\ scope["a"] = pre.scope["a"] /\ scope["b"] # 0
    /\ ~hasCode(diags, "NoNewVar")

\* what a short variable declaration with q queued bodies does, in order
expectedEvents(top, q) ==
    <<[e |-> "initVars", i |-> 0]>>
        \o [k \in 1..q |-> [e |-> "body", i |-> top + k]]
        \o <<[e |-> "declare", i |-> 0]>>

\* C5: shortVarDecl checks the right-hand side, then processes the bodies
\* delayed since it began, in enqueue order, and only then inserts the new
\* variables into the scope; while the right-hand side or a delayed body is
\* checked no new variable is in the scope, and every identifier they
\* mention resolves to an object that existed before the statement.
C5_DeclareAfterDelayed ==
    op.name = "shortVarDecl"
        => /\ phase \in {"initVars", "processDelayed"}
                => \A k \in 1..Len(sv.newVars) : \A n \in Names :
                        scope[n] # sv.newVars[k]
           /\ \A k \in 1..Len(trace.refs) : pre.objs[trace.refs[k]].kind # "free"
           /\ Len(trace.events) > 0
                => /\ Len(trace.events) <= trace.queued + 2
                   /\ \A k \in 1..Len(trace.events) :
                        trace.events[k] = expectedEvents(trace.top, trace.queued)[k]
           /\ sv.pc = 0 => trace.events = expectedEvents(trace.top, trace.queued)

\* a := func() int { return a }(): the body was processed, resolved a to the
\* variable of the enclosing scope, and the new a was declared afterwards
C5_Witness ==
    /\ ShortDone
    /\ op.lhs = <<Expr("name", "a")>>
    /\ trace.queued = 1
    /\ trace.refs = <<1>>
    /\ pre.scope["a"] = 0 /\ scope["a"] # 0

\* the paths on which initVar fails
initVarFailure ==
    \/ pre.x.mode = "invalid" \/ pre.x.typ = Invalid \/ op.T = Invalid
    \/ op.T = NoType /\ pre.x.typ = UntypedNil
    \/ x.mode = "invalid"

\* C6: initVar returns nil and leaves lhs.used true on every failure path,
\* and returns x's non-nil type on success.
C6_InitVarFailureMarksUsed ==
    op.name = "initVar"
        => /\ initVarFailure => (ret = NoType /\ trace.lhs.used)
           /\ ~initVarFailure => (ret = x.typ /\ ret # NoType)

\* C7: assignment, initConst, initVar and assignVar on an operand that is
\* already invalid report no diagnostic about it and leave it unchanged;
\* initVars and assignVars report no arity diagnostic when a right-hand
\* operand is already invalid.
C7_InvalidOperandIsSilent ==
    /\ (op.name \in {"assignment", "initConst", "initVar", "assignVar"}
            /\ pre.x.mode = "invalid")
        => (x = pre.x /\ ~aboutOperand(diags))
    /\ (op.name \in {"initVars", "assignVars"} /\ trace.rhsInvalid)
        => arityCount(diags) = 0

\* assignment ran on an operand the evaluator had rejected
C7_Witness ==
    /\ op.name = "assignment" /\ op.T = "int"
    /\ pre.x.mode = "invalid" /\ pre.xerr
    /\ diags = <<>>

\* C8: lhsVar leaves the used flag of the variable of this package that a
\* (possibly parenthesized) identifier denotes as it was, on every return
\* path; the blank identifier is not evaluated and yields nil.
C8_LhsVarKeepsUsed ==
    op.name = "lhsVar"
        => /\ isBlank(op.lhs)
                => (ret = NoType /\ trace.evals = 0 /\ diags = <<>> /\ objs = pre.objs)
           /\ (isName(op.lhs) /\ ~isBlank(op.lhs) /\ lookup(op.lhs.n) # 0)
                => \/ pre.objs[lookup(op.lhs.n)].kind # "var"
                   \/ pre.objs[lookup(op.lhs.n)].pkg # "local"
                   \/ objs[lookup(op.lhs.n)].used = pre.objs[lookup(op.lhs.n)].used

\* lhsVar evaluated (a), a legal target, and a is still unused
C8_Witness ==
    /\ op.name = "lhsVar" /\ op.lhs = Paren(Expr("name", "a"))
    /\ trace.evals = 1 /\ ret = "int"
    /\ ~pre.objs[1].used /\ ~objs[1].used

\* C9: a variable's type is written only while it is unset: once it is set,
\* to a real type or to the invalid type, no step changes it.
C9_TypeSetOnce ==
    [][ /\ \A i \in ObjIds :
              (objs[i].kind = "var" /\ objs[i].typ # NoType /\ objs'[i].kind = "var")
                  => objs'[i].typ = objs[i].typ
        /\ op'.name = "initVars"
              => \A i \in 1..Len(trace'.before) :
                    trace'.before[i].typ # NoType
                        => trace'.targets[i].typ = trace'.before[i].typ ]_vars

\* a short declaration reused the variable a, whose type was set, in an
\* arity mismatch, and a's type is what it was
C9_Witness ==
    /\ ShortDone /\ op.lhs = <<Expr("name", "a"), Expr("name", "b")>>
    /\ pre.scope["a"] # 0 /\ pre.objs[pre.scope["a"]].typ = "int"
    /\ arityCount(diags) = 1
    /\ objs[pre.scope["a"]].typ = "int"

\* the last call was initVars or assignVars in the normal form
NormalForm ==
    op.name \in {"initVars", "assignVars"} /\ trace.m = trace.n /\ ~trace.commaOk

\* C10 as stated: every pair is checked, in order, even after a failure; if
\* a pair fails every target is used afterwards; no left-hand expression is
\* evaluated twice.
C10_FailureMarksEveryTarget ==
    NormalForm
        => /\ trace.slots = [i \in 1..trace.m |-> i]
           /\ \A i \in 1..Len(trace.evals) : trace.evals[i] <= 1
           /\ (trace.failed /\ op.name = "initVars")
                => \A i \in 1..trace.m : trace.targets[i].used
           /\ (trace.failed /\ op.name = "assignVars")
                => \A i \in namedVars : objs[i].used

\* C10 amended: every pair is checked, in order, even after a failure; if a
\* pair fails, every target Var of initVars, and every variable of the
\* package being checked that assignVars names as a target, is used
\* afterwards; no left-hand expression is evaluated twice.
C10_FailureMarksEveryLocalTarget ==
    NormalForm
        => /\ trace.slots = [i \in 1..trace.m |-> i]
           /\ \A i \in 1..Len(trace.evals) : trace.evals[i] <= 1
           /\ (trace.failed /\ op.name = "initVars")
                => \A i \in 1..trace.m : trace.targets[i].used
           /\ (trace.failed /\ op.name = "assignVars")
                => \A i \in namedVars : objs[i].pkg = "local" => objs[i].used

\* f, a = 1, 1: the first pair fails, the second succeeds, and a is used
C10_Witness ==
    /\ op.name = "assignVars"
    /\ op.lhs = <<Expr("name", "f"), Expr("name", "a")>>
    /\ trace.failed /\ trace.slots = <<1, 2>> /\ trace.evals = <<1, 1>>
    /\ ~pre.objs[1].used /\ objs[1].used
    /\ Len(diags) = 1

====
